---- MODULE Spec2Model ----
(***************************************************************************)
(* Camera and sensor platforms of the unifiprotect integration              *)
(* (custom_components/unifiprotect/camera.py and sensor.py).                *)
(*                                                                          *)
(* The SDK (pyunifiprotect) and the host platform are the environment: SDK  *)
(* objects are immutable snapshots that the SDK replaces in the bootstrap   *)
(* when it refreshes, the host invokes entity callbacks and service         *)
(* handlers at any time, and an SDK setter either returns or raises.        *)
(* A channel's rtsps_url is None or a non-empty URL, a camera has at least  *)
(* one channel and stays in the bootstrap, and a service call carries the   *)
(* arguments its handler's parameters name, a mode string being the value   *)
(* of a member of its enum.                                                 *)
(*                                                                          *)
(* Spec follows one camera entity through SDK updates and update callbacks, *)
(* SpecService adds the entity services, SpecSetup is the camera platform's *)
(* async_setup_entry and SpecSensor the sensor platform.                    *)
(***************************************************************************)
EXTENDS Integers, Sequences, FiniteSets, TLC

VARIABLES
    cameras,              \* protect.bootstrap.cameras: the dict's values, in dict order
    last_update_success,  \* protect_data.last_update_success
    disable_stream,       \* entry_data.disable_stream
    entity,               \* the UnifiProtectCamera entity under observation
    ha_state,             \* what async_write_ha_state last wrote to the host
    pc,                   \* the operation that ran last
    added,                \* the lists passed to async_add_entities, one per call
    registered,           \* the entity services registered on the platform
    sdk_calls,            \* the SDK setter calls the operation that ran last made
    last,                 \* the service call, when that is what ran last, or None
    now,                  \* the clock utc_now() reads, in minutes
    devices,              \* the bootstrap's adopted devices, as sensor.py sees them
    reading               \* the native_value read that ran last, or None

vars == <<cameras, last_update_success, disable_stream, entity, ha_state, pc,
          added, registered, sdk_calls, last, now, devices, reading>>

\* Python's None.
None == "None"

Min(S) == CHOOSE x \in S : \A y \in S : x <= y

-----------------------------------------------------------------------------
(* The SDK's data model, as far as camera.py reads it. *)

\* homeassistant.components.camera.SUPPORT_STREAM
SUPPORT_STREAM == 2

ChannelIds == {0, 1}
RtspsUrls == {"rtsps://nvr:7441/alias"}
CameraIds == {"cam1", "cam2"}

\* pyunifiprotect.data.devices.CameraChannel: id, is_rtsp_enabled, rtsps_url.
CameraChannel ==
    [id : ChannelIds, is_rtsp_enabled : BOOLEAN, rtsps_url : RtspsUrls \cup {None}]

DistinctIds(s) == \A i, j \in 1..Len(s) : i # j => s[i].id # s[j].id

\* The non-empty sequences over S of length at most n.
SeqsUpTo(S, n) == UNION {[1..k -> S] : k \in 1..n}

\* camera.channels: at least one channel, each id once, in any order.
ChannelLists ==
    {s \in SeqsUpTo(CameraChannel, Cardinality(ChannelIds)) : DistinctIds(s)}

\* The channel lists that hold their channels by ascending id.
AscendingChannelLists ==
    {s \in ChannelLists : \A i, j \in 1..Len(s) : i < j => s[i].id < s[j].id}

\* pyunifiprotect.data.Camera: id, mac, is_connected, channels (one of lists).
UnifiCamera(id, lists) ==
    [id : {id}, mac : {"mac-" \o id}, is_connected : BOOLEAN, channels : lists]

\* The values a bootstrap's cameras dict can hold for the camera ids in order.
RECURSIVE BootstrapsOf(_, _)
BootstrapsOf(ids, lists) ==
    IF ids = <<>> THEN {<<>>}
    ELSE {<<c>> \o rest : c \in UnifiCamera(Head(ids), lists),
                          rest \in BootstrapsOf(Tail(ids), lists)}

\* The orders in which the dict can hold some of the camera ids.
IdOrders ==
    {<<>>} \cup {s \in SeqsUpTo(CameraIds, Cardinality(CameraIds)) :
                    \A i, j \in 1..Len(s) : i # j => s[i] # s[j]}

IdsOf(cams) == [i \in 1..Len(cams) |-> cams[i].id]

\* protect.bootstrap.cameras[id]
CameraById(cams, id) == cams[Min({i \in 1..Len(cams) : cams[i].id = id})]

-----------------------------------------------------------------------------
(* camera.py *)

Triple(camera, channel, is_default) ==
    [camera |-> camera, channel |-> channel, is_default |-> is_default]

\* CameraTriples with line 75 (is_default = False) left out.
RECURSIVE CameraTriplesKeepDefault(_, _, _)
CameraTriplesKeepDefault(camera, i, is_default) ==
    IF i > Len(camera.channels)
    THEN IF is_default THEN <<Triple(camera, camera.channels[1], TRUE)>> ELSE <<>>
    ELSE IF camera.channels[i].is_rtsp_enabled
         THEN <<Triple(camera, camera.channels[i], is_default)>>
                  \o CameraTriplesKeepDefault(camera, i + 1, is_default)
         ELSE CameraTriplesKeepDefault(camera, i + 1, is_default)

\* The inner loop of get_camera_channels from channel index i on, and the
\* fallback after it.
RECURSIVE CameraTriples(_, _, _)
CameraTriples(camera, i, is_default) ==
    IF i > Len(camera.channels)
    THEN IF is_default THEN <<Triple(camera, camera.channels[1], TRUE)>> ELSE <<>>
    ELSE IF camera.channels[i].is_rtsp_enabled
         THEN <<Triple(camera, camera.channels[i], is_default)>>
                  \o CameraTriples(camera, i + 1, FALSE)
         ELSE CameraTriples(camera, i + 1, is_default)

\* The triples the generator yields, in order.
RECURSIVE get_camera_channels(_)
get_camera_channels(cams) ==
    IF cams = <<>> THEN <<>>
    ELSE CameraTriples(Head(cams), 1, TRUE) \o get_camera_channels(Tail(cams))

\* Python truthiness of an Optional[str].
Truthy(s) == s # None /\ s # ""

_async_set_stream_source(self) ==
    LET disable == IF ~self.channel.is_rtsp_enabled THEN FALSE ELSE self._disable_stream
        source == IF disable THEN None ELSE self.channel.rtsps_url
    IN [self EXCEPT !._stream_source = source,
                    !._attr_supported_features =
                        IF Truthy(source) THEN SUPPORT_STREAM ELSE 0]

\* UnifiProtectCamera.__init__; available is what the base classes leave in
\* _attr_available.
UnifiProtectCamera(camera, channel, is_default, disable, available) ==
    _async_set_stream_source(
        [device |-> camera,
         channel |-> channel,
         _disable_stream |-> disable,
         _stream_source |-> None,
         _attr_supported_features |-> 0,
         _attr_available |-> available,
         _attr_unique_id |-> <<camera.id, camera.mac, channel.id>>,
         _attr_entity_registry_enabled_default |-> is_default])

\* _async_updated_event taking the camera's first channel, whatever its id.
UpdatedEventFirstChannel(self, cams, success) ==
    LET refreshed ==
            IF success
            THEN LET device == CameraById(cams, self.device.id)
                 IN _async_set_stream_source(
                        [self EXCEPT !.device = device, !.channel = device.channels[1]])
            ELSE self
    IN [refreshed EXCEPT
           !._attr_available = refreshed.device.is_connected /\ success]

\* _async_updated_event with availability read off the device alone.
UpdatedEventConnectedOnly(self, cams, success) ==
    LET refreshed ==
            IF success
            THEN LET device == CameraById(cams, self.device.id)
                     found == {i \in 1..Len(device.channels) :
                                  device.channels[i].id = self.channel.id}
                     channel == IF found = {} THEN self.channel
                                ELSE device.channels[Min(found)]
                 IN _async_set_stream_source(
                        [self EXCEPT !.device = device, !.channel = channel])
            ELSE self
    IN [refreshed EXCEPT !._attr_available = refreshed.device.is_connected]

\* _async_updated_event without line 202 (the stream source is not set again).
UpdatedEventStaleSource(self, cams, success) ==
    LET refreshed ==
            IF success
            THEN LET device == CameraById(cams, self.device.id)
                     found == {i \in 1..Len(device.channels) :
                                  device.channels[i].id = self.channel.id}
                     channel == IF found = {} THEN self.channel
                                ELSE device.channels[Min(found)]
                 IN [self EXCEPT !.device = device, !.channel = channel]
            ELSE self
    IN [refreshed EXCEPT
           !._attr_available = refreshed.device.is_connected /\ success]

\* The body of _async_updated_event up to async_write_ha_state.
_async_updated_event(self, cams, success) ==
    LET refreshed ==
            IF success
            THEN LET device == CameraById(cams, self.device.id)
                     found == {i \in 1..Len(device.channels) :
                                  device.channels[i].id = self.channel.id}
                     channel == IF found = {} THEN self.channel
                                ELSE device.channels[Min(found)]
                 IN _async_set_stream_source(
                        [self EXCEPT !.device = device, !.channel = channel])
            ELSE self
    IN [refreshed EXCEPT
           !._attr_available = refreshed.device.is_connected /\ success]

\* The state async_write_ha_state reads off the entity.
HaState(self) ==
    [available |-> self._attr_available,
     supported_features |-> self._attr_supported_features]

\* The entities async_setup_entry builds, in order.
CameraEntities(cams, disable, available) ==
    LET triples == get_camera_channels(cams)
    IN [i \in 1..Len(triples) |->
           UnifiProtectCamera(triples[i].camera, triples[i].channel,
                              triples[i].is_default, disable, available)]

\* The (service, handler) pairs async_setup_entry registers.
CameraServices ==
    {<<"SERVICE_SET_RECORDING_MODE", "async_set_recording_mode">>,
     <<"SERVICE_SET_IR_MODE", "async_set_ir_mode">>,
     <<"SERVICE_SET_STATUS_LIGHT", "async_set_status_light">>,
     <<"SERVICE_SET_HDR_MODE", "async_set_hdr_mode">>,
     <<"SERVICE_SET_HIGHFPS_VIDEO_MODE", "async_set_highfps_video_mode">>,
     <<"SERVICE_SET_DOORBELL_LCD_MESSAGE", "async_set_doorbell_lcd_message">>,
     <<"SERVICE_SET_MIC_VOLUME", "async_set_mic_volume">>,
     <<"SERVICE_SET_PRIVACY_MODE", "async_set_privacy_mode">>,
     <<"SERVICE_SET_ZOOM_POSITION", "async_set_zoom_position">>,
     <<"SERVICE_SET_WDR_VALUE", "async_set_wdr_value">>,
     <<"SERVICE_SET_DOORBELL_CHIME_DURAION", "async_set_doorbell_chime_duration">>}

-----------------------------------------------------------------------------
(* Python values handed to the SDK, tagged with their type. *)

PyNone == [type |-> "NoneType"]
PyBool(b) == [type |-> "bool", bool |-> b]
PyInt(n) == [type |-> "int", int |-> n]
PyStr(s) == [type |-> "str", str |-> s]
\* A datetime, in minutes.
PyDatetime(t) == [type |-> "datetime", minutes |-> t]
\* The member of enum class cls whose value is value.
EnumMember(cls, value) == [type |-> "enum", cls |-> cls, value |-> value]

\* The values of the SDK's enum classes (pyunifiprotect.data.types).
RecordingModeValues == {"always", "never", "detections"}
IRLEDModeValues == {"auto", "on", "autoFilterOnly", "off"}

\* RecordingMode(value), IRLEDMode(value): the member with that value.
RecordingMode(value) == EnumMember("RecordingMode", value)
IRLEDMode(value) == EnumMember("IRLEDMode", value)
VideoMode_HIGH_FPS == EnumMember("VideoMode", "highFps")
VideoMode_DEFAULT == EnumMember("VideoMode", "default")
DoorbellMessageType_CUSTOM_MESSAGE == EnumMember("DoorbellMessageType", "CUSTOM_MESSAGE")

\* A string is a sequence of characters. SUPERSCRIPT_TWO stands for U+00B2, a
\* character that is numeric and no decimal digit.
DecimalChars == {"2"}
NumericChars == DecimalChars \cup {"SUPERSCRIPT_TWO"}
Chars == NumericChars \cup {"m"}

\* str.isnumeric(): not empty, and every character is numeric.
isnumeric(s) == Len(s) > 0 /\ \A i \in 1..Len(s) : s[i] \in NumericChars

\* Whether int(s) accepts s, for an s that is numeric: every character is a
\* decimal digit. Otherwise int(s) raises ValueError.
IntAccepts(s) == Len(s) > 0 /\ \A i \in 1..Len(s) : s[i] \in DecimalChars

DigitValue(c) == CASE c = "2" -> 2

\* int(s) for a string of decimal digits.
RECURSIVE int(_)
int(s) ==
    IF s = <<>> THEN 0
    ELSE int(SubSeq(s, 1, Len(s) - 1)) * 10 + DigitValue(s[Len(s)])

-----------------------------------------------------------------------------
(* The service handlers. A handler is given the entity, its arguments and   *)
(* sdk, what the SDK does when a setter is called during this service call  *)
(* (None: it returns; otherwise the failure it raises), and yields the      *)
(* setter calls made and the failure the handler raised (None: it returned).*)

SdkErrors == {"NvrError", "NotAuthorized"}
SdkOutcomes == {None} \cup SdkErrors

\* await device.method(*args), as the only statement left of a handler.
Await(device, method, args, sdk) ==
    [calls |-> <<[device |-> device, method |-> method, args |-> args,
                  outcome |-> sdk]>>,
     raised |-> sdk]

\* A failure raised by the handler's own code before any setter is called.
Raise(error) == [calls |-> <<>>, raised |-> error]

async_set_recording_mode(self, recording_mode, sdk) ==
    Await(self.device, "set_recording_mode", <<RecordingMode(recording_mode)>>, sdk)

async_set_ir_mode(self, ir_mode, sdk) ==
    Await(self.device, "set_ir_led_model", <<IRLEDMode(ir_mode)>>, sdk)

async_set_status_light(self, light_on, sdk) ==
    Await(self.device, "set_status_light", <<PyBool(light_on)>>, sdk)

async_set_hdr_mode(self, hdr_on, sdk) ==
    Await(self.device, "set_hdr", <<PyBool(hdr_on)>>, sdk)

async_set_doorbell_chime_duration(self, chime_duration, sdk) ==
    Await(self.device, "set_chime_duration", <<PyInt(chime_duration)>>, sdk)

async_set_highfps_video_mode(self, high_fps_on, sdk) ==
    Await(self.device, "set_video_mode",
          <<IF high_fps_on THEN VideoMode_HIGH_FPS ELSE VideoMode_DEFAULT>>, sdk)

\* args holds the two positional arguments and then reset_at, the keyword one.
async_set_doorbell_lcd_message(self, message, duration, utc_now, sdk) ==
    IF isnumeric(duration)
    THEN IF IntAccepts(duration)
         THEN Await(self.device, "set_lcd_text",
                    <<DoorbellMessageType_CUSTOM_MESSAGE, PyStr(message),
                      PyDatetime(utc_now + int(duration))>>, sdk)
         ELSE Raise("ValueError")
    ELSE Await(self.device, "set_lcd_text",
               <<DoorbellMessageType_CUSTOM_MESSAGE, PyStr(message), PyNone>>, sdk)

\* async_set_mic_volume calling the setter on the bootstrap's camera.
SetMicVolumeOnBootstrap(self, level, sdk) ==
    Await(CameraById(cameras, self.device.id), "set_mic_volume", <<PyInt(level)>>, sdk)

async_set_mic_volume(self, level, sdk) ==
    Await(self.device, "set_mic_volume", <<PyInt(level)>>, sdk)

async_set_privacy_mode(self, privacy_mode, mic_level, recording_mode, sdk) ==
    Await(self.device, "set_privacy",
          <<PyBool(privacy_mode), PyInt(mic_level), RecordingMode(recording_mode)>>,
          sdk)

async_set_wdr_value(self, value, sdk) ==
    Await(self.device, "set_wdr_level", <<PyInt(value)>>, sdk)

\* async_set_zoom_position calling the setter once more when it raised.
SetZoomPositionRetry(self, position, sdk) ==
    LET first == Await(self.device, "set_camera_zoom", <<PyInt(position)>>, sdk)
    IN IF first.raised = None THEN first
       ELSE [calls |-> first.calls \o first.calls, raised |-> first.raised]

async_set_zoom_position(self, position, sdk) ==
    Await(self.device, "set_camera_zoom", <<PyInt(position)>>, sdk)

\* The host calls the handler method by its registered name with the
\* service call's arguments as keyword arguments.
CallHandler(handler, self, kw, utc_now, sdk) ==
    CASE handler = "async_set_recording_mode" ->
            async_set_recording_mode(self, kw.recording_mode, sdk)
      [] handler = "async_set_ir_mode" -> async_set_ir_mode(self, kw.ir_mode, sdk)
      [] handler = "async_set_status_light" ->
            async_set_status_light(self, kw.light_on, sdk)
      [] handler = "async_set_hdr_mode" -> async_set_hdr_mode(self, kw.hdr_on, sdk)
      [] handler = "async_set_doorbell_chime_duration" ->
            async_set_doorbell_chime_duration(self, kw.chime_duration, sdk)
      [] handler = "async_set_highfps_video_mode" ->
            async_set_highfps_video_mode(self, kw.high_fps_on, sdk)
      [] handler = "async_set_doorbell_lcd_message" ->
            async_set_doorbell_lcd_message(self, kw.message, kw.duration, utc_now, sdk)
      [] handler = "async_set_mic_volume" -> async_set_mic_volume(self, kw.level, sdk)
      [] handler = "async_set_privacy_mode" ->
            async_set_privacy_mode(self, kw.privacy_mode, kw.mic_level,
                                   kw.recording_mode, sdk)
      [] handler = "async_set_wdr_value" -> async_set_wdr_value(self, kw.value, sdk)
      [] handler = "async_set_zoom_position" ->
            async_set_zoom_position(self, kw.position, sdk)

MaxDurationLen == 2
MaxNow == 1
Levels == {0, 100}
Messages == {"Welcome"}
Durations == {<<>>} \cup SeqsUpTo(Chars, MaxDurationLen)

\* The arguments the registered schema of each service lets through.
ServiceArgs(handler) ==
    CASE handler = "async_set_recording_mode" -> [recording_mode : RecordingModeValues]
      [] handler = "async_set_ir_mode" -> [ir_mode : IRLEDModeValues]
      [] handler = "async_set_status_light" -> [light_on : BOOLEAN]
      [] handler = "async_set_hdr_mode" -> [hdr_on : BOOLEAN]
      [] handler = "async_set_doorbell_chime_duration" -> [chime_duration : Levels]
      [] handler = "async_set_highfps_video_mode" -> [high_fps_on : BOOLEAN]
      [] handler = "async_set_doorbell_lcd_message" ->
            [message : Messages, duration : Durations]
      [] handler = "async_set_mic_volume" -> [level : Levels]
      [] handler = "async_set_privacy_mode" ->
            [privacy_mode : BOOLEAN, mic_level : Levels,
             recording_mode : RecordingModeValues]
      [] handler = "async_set_wdr_value" -> [value : Levels]
      [] handler = "async_set_zoom_position" -> [position : Levels]

-----------------------------------------------------------------------------
(* The camera entity and its update callback. *)

\* One camera entity has been constructed, by async_setup_entry, from a triple
\* of a bootstrap over the channel lists; setup follows a successful refresh.
Constructed(lists) ==
    /\ cameras \in BootstrapsOf(<<"cam1">>, lists)
    /\ last_update_success = TRUE
    /\ disable_stream \in BOOLEAN
    /\ \E available \in BOOLEAN :
          LET built == CameraEntities(cameras, disable_stream, available)
          IN entity \in {built[i] : i \in 1..Len(built)}
    /\ ha_state = None
    /\ pc = "constructed"
    /\ added = <<>>
    /\ registered = CameraServices
    /\ sdk_calls = <<>>
    /\ last = None
    /\ now = 0
    /\ devices = <<>>
    /\ reading = None

Init == Constructed(AscendingChannelLists)

\* The SDK replaces the camera objects of the bootstrap (same ids).
SdkUpdateOver(lists) ==
    /\ cameras' \in BootstrapsOf(IdsOf(cameras), lists)
    /\ pc' = "sdk_update"
    /\ sdk_calls' = <<>>
    /\ last' = None
    /\ UNCHANGED <<last_update_success, disable_stream, entity, ha_state, added,
                   registered, now,
                   devices, reading>>

SdkUpdate == SdkUpdateOver(AscendingChannelLists)

\* A data refresh ends: it succeeded or it failed.
DataRefresh ==
    /\ last_update_success' \in BOOLEAN
    /\ pc' = "data_refresh"
    /\ sdk_calls' = <<>>
    /\ last' = None
    /\ UNCHANGED <<cameras, disable_stream, entity, ha_state, added, registered, now,
                   devices, reading>>

\* The host runs the entity's update callback.
UpdatedEvent ==
    /\ entity' = _async_updated_event(entity, cameras, last_update_success)
    /\ ha_state' = HaState(entity')
    /\ pc' = "updated_event"
    /\ sdk_calls' = <<>>
    /\ last' = None
    /\ UNCHANGED <<cameras, last_update_success, disable_stream, added, registered,
                   now,
                   devices, reading>>

Next == SdkUpdate \/ DataRefresh \/ UpdatedEvent

Spec == Init /\ [][Next]_vars

-----------------------------------------------------------------------------
(* async_setup_entry of the camera platform. *)

InitSetup ==
    /\ cameras \in UNION {BootstrapsOf(ids, ChannelLists) : ids \in IdOrders}
    /\ last_update_success = TRUE
    /\ disable_stream \in BOOLEAN
    /\ entity = None
    /\ ha_state = None
    /\ pc = "loaded"
    /\ added = <<>>
    /\ registered = {}
    /\ sdk_calls = <<>>
    /\ last = None
    /\ now = 0
    /\ devices = <<>>
    /\ reading = None

AsyncSetupEntry ==
    /\ pc = "loaded"
    /\ \E available \in BOOLEAN :
          added' = Append(added, CameraEntities(cameras, disable_stream, available))
    /\ registered' = CameraServices
    /\ pc' = "setup"
    /\ UNCHANGED <<cameras, last_update_success, disable_stream, entity, ha_state,
                   sdk_calls, last, now,
                   devices, reading>>

NextSetup == AsyncSetupEntry

SpecSetup == InitSetup /\ [][NextSetup]_vars

-----------------------------------------------------------------------------
(* The camera entity's services. The handlers read the entity's device and  *)
(* no channel, so the cameras hold one channel here.                        *)

ServiceChannelLists ==
    {s \in ChannelLists : Len(s) = 1 /\ s[1].id = 0 /\ s[1].is_rtsp_enabled
                             /\ s[1].rtsps_url # None}

InitService == Constructed(ServiceChannelLists)

SdkUpdateService == SdkUpdateOver(ServiceChannelLists)

\* Time passes.
Tick ==
    /\ now < MaxNow
    /\ now' = now + 1
    /\ pc' = "tick"
    /\ sdk_calls' = <<>>
    /\ last' = None
    /\ UNCHANGED <<cameras, last_update_success, disable_stream, entity, ha_state,
                   added, registered,
                   devices, reading>>

\* The host dispatches a call of a registered service to the entity.
CallService ==
    /\ \E reg \in registered : \E kw \in ServiceArgs(reg[2]) : \E sdk \in SdkOutcomes :
          LET result == CallHandler(reg[2], entity, kw, now, sdk)
          IN /\ sdk_calls' = result.calls
             /\ last' = [service |-> reg[1], handler |-> reg[2], kw |-> kw,
                         utc_now |-> now, raised |-> result.raised]
    /\ pc' = "service"
    /\ UNCHANGED <<cameras, last_update_success, disable_stream, entity, ha_state,
                   added, registered, now,
                   devices, reading>>

NextService ==
    SdkUpdateService \/ DataRefresh \/ UpdatedEvent \/ Tick \/ CallService

SpecService == InitService /\ [][NextService]_vars

-----------------------------------------------------------------------------
(* Properties of the camera platform. *)

\* The camera object the bootstrap holds now under the entity's device id.
CurrentCamera == CameraById(cameras, entity._attr_unique_id[1])

\* The service call's arguments themselves, in the handler's order: a mode
\* string as the enum member of that value, the high-FPS flag as the
\* VideoMode member it stands for.
PassThroughArgs(handler, kw) ==
    CASE handler = "async_set_recording_mode" ->
            <<EnumMember("RecordingMode", kw.recording_mode)>>
      [] handler = "async_set_ir_mode" -> <<EnumMember("IRLEDMode", kw.ir_mode)>>
      [] handler = "async_set_status_light" -> <<PyBool(kw.light_on)>>
      [] handler = "async_set_hdr_mode" -> <<PyBool(kw.hdr_on)>>
      [] handler = "async_set_doorbell_chime_duration" -> <<PyInt(kw.chime_duration)>>
      [] handler = "async_set_highfps_video_mode" ->
            <<EnumMember("VideoMode", IF kw.high_fps_on THEN "highFps" ELSE "default")>>
      [] handler = "async_set_doorbell_lcd_message" ->
            <<PyStr(kw.message), PyStr(kw.duration)>>
      [] handler = "async_set_mic_volume" -> <<PyInt(kw.level)>>
      [] handler = "async_set_privacy_mode" ->
            <<PyBool(kw.privacy_mode), PyInt(kw.mic_level),
              EnumMember("RecordingMode", kw.recording_mode)>>
      [] handler = "async_set_wdr_value" -> <<PyInt(kw.value)>>
      [] handler = "async_set_zoom_position" -> <<PyInt(kw.position)>>

\* The SDK setter each handler forwards to.
SetterOf(handler) ==
    CASE handler = "async_set_recording_mode" -> "set_recording_mode"
      [] handler = "async_set_ir_mode" -> "set_ir_led_model"
      [] handler = "async_set_status_light" -> "set_status_light"
      [] handler = "async_set_hdr_mode" -> "set_hdr"
      [] handler = "async_set_doorbell_chime_duration" -> "set_chime_duration"
      [] handler = "async_set_highfps_video_mode" -> "set_video_mode"
      [] handler = "async_set_doorbell_lcd_message" -> "set_lcd_text"
      [] handler = "async_set_mic_volume" -> "set_mic_volume"
      [] handler = "async_set_privacy_mode" -> "set_privacy"
      [] handler = "async_set_wdr_value" -> "set_wdr_level"
      [] handler = "async_set_zoom_position" -> "set_camera_zoom"

\* The minutes a string of the digit 2 alone denotes: 2, 22, 222, ...
RECURSIVE Twos(_)
Twos(n) == IF n = 0 THEN 0 ELSE 10 * Twos(n - 1) + 2

\* A duration that is all digits and superscripts, with a superscript in it.
NumericNotDecimal(duration) ==
    /\ duration # <<>>
    /\ \A i \in 1..Len(duration) : duration[i] \in {"2", "SUPERSCRIPT_TWO"}
    /\ \E i \in 1..Len(duration) : duration[i] = "SUPERSCRIPT_TWO"

\* What the handlers hand over: the LCD-message handler computes its own.
ComputedArgs(handler, kw, utc_now) ==
    CASE handler = "async_set_doorbell_lcd_message" ->
            <<EnumMember("DoorbellMessageType", "CUSTOM_MESSAGE"), PyStr(kw.message),
              IF kw.duration # <<>> /\ \A i \in 1..Len(kw.duration) : kw.duration[i] = "2"
              THEN PyDatetime(utc_now + Twos(Len(kw.duration)))
              ELSE PyNone>>
      [] OTHER -> PassThroughArgs(handler, kw)

C2_MirrorsAsClaimed ==
    pc = "updated_event" =>
        /\ entity.device = CurrentCamera
        /\ \E i \in 1..Len(CurrentCamera.channels) :
              CurrentCamera.channels[i] = entity.channel
        /\ entity.channel.id = entity._attr_unique_id[3]

\* C2, amended: a run of the update callback while last_update_success is
\* true leaves the entity with the bootstrap's current camera object for its
\* id and with that camera's current channel of the same id when the camera
\* has one, and with the channel it had otherwise; a run while
\* last_update_success is false leaves device and channel as they were. The
\* channel's id never changes.
C2_MirrorsOnSuccess ==
    [][pc' = "updated_event" =>
          /\ entity'.channel.id = entity.channel.id
          /\ IF last_update_success
             THEN LET current == CameraById(cameras, entity.device.id)
                      same == {i \in 1..Len(current.channels) :
                                  current.channels[i].id = entity.channel.id}
                  IN /\ entity'.device = current
                     /\ \A i \in same : entity'.channel = current.channels[i]
                     /\ same = {} => entity'.channel = entity.channel
             ELSE /\ entity'.device = entity.device
                  /\ entity'.channel = entity.channel]_vars

\* A callback has refreshed the entity of a camera's second channel.
C2_Witness ==
    /\ pc = "updated_event"
    /\ last_update_success
    /\ entity.device = CurrentCamera
    /\ Len(entity.device.channels) = 2
    /\ entity.channel = entity.device.channels[2]
    /\ entity._attr_unique_id[3] = 1

\* C3: when the SDK setter raises during a service call, the handler raises
\* that same failure, the setter was called once, and the entity is as it was
\* before the call.
C3_FailureSurfaces ==
    [][(/\ pc' = "service"
        /\ \E i \in 1..Len(sdk_calls') : sdk_calls'[i].outcome # None)
       => /\ Len(sdk_calls') = 1
          /\ last'.raised = sdk_calls'[1].outcome
          /\ entity' = entity
          /\ ha_state' = ha_state]_vars

\* A service call ended with the failure the SDK setter raised.
C3_Witness ==
    /\ pc = "service"
    /\ Len(sdk_calls) = 1
    /\ sdk_calls[1].outcome = "NotAuthorized"
    /\ last.raised = "NotAuthorized"

\* The first channel of a camera with RTSP enabled, or its first channel.
DefaultChannel(camera) ==
    LET enabled == {i \in 1..Len(camera.channels) : camera.channels[i].is_rtsp_enabled}
    IN IF enabled = {} THEN camera.channels[1] ELSE camera.channels[Min(enabled)]

RtspEnabled(channel) == channel.is_rtsp_enabled

\* C4: of the entities setup adds, every camera of the bootstrap has at least
\* one and exactly one enabled by default; that one is on the camera's first
\* RTSP-enabled channel, or on its first channel when none is RTSP-enabled;
\* and the camera's RTSP-enabled channels each have one entity, in channel order.
C4_DefaultChannel ==
    pc = "setup" =>
        /\ Len(added) = 1
        /\ \A e \in 1..Len(added[1]) :
              \E k \in 1..Len(cameras) : added[1][e].device = cameras[k]
        /\ \A k \in 1..Len(cameras) :
              LET OfCamera(ent) == ent.device.id = cameras[k].id
                  mine == SelectSeq(added[1], OfCamera)
                  defaults == {i \in 1..Len(mine) :
                                  mine[i]._attr_entity_registry_enabled_default}
                  channels == [i \in 1..Len(mine) |-> mine[i].channel]
                  enabled == SelectSeq(cameras[k].channels, RtspEnabled)
              IN /\ Len(mine) >= 1
                 /\ Cardinality(defaults) = 1
                 /\ \A i \in defaults : mine[i].channel = DefaultChannel(cameras[k])
                 /\ SelectSeq(channels, RtspEnabled) = enabled
                 /\ enabled = <<>> => channels = <<cameras[k].channels[1]>>

\* Setup ran on a camera with two RTSP-enabled channels and one with none.
C4_Witness ==
    /\ pc = "setup"
    /\ Len(cameras) = 2
    /\ Len(added[1]) = 3
    /\ ~added[1][2]._attr_entity_registry_enabled_default
    /\ ~added[1][3].channel.is_rtsp_enabled

\* C5: after an update callback the entity is available exactly when its
\* device is connected and the last data update succeeded, and that is what
\* the host was given.
C5_Availability ==
    pc = "updated_event" =>
        /\ entity._attr_available = (entity.device.is_connected /\ last_update_success)
        /\ ha_state.available = entity._attr_available

\* A callback ran while last_update_success was false: the device it left in
\* place is connected and is no longer the bootstrap's, and the entity is
\* unavailable.
C5_Witness ==
    /\ pc = "updated_event"
    /\ ~last_update_success
    /\ entity.device.is_connected
    /\ entity.device # CurrentCamera
    /\ ~entity._attr_available

\* C6: the entity advertises SUPPORT_STREAM exactly when its stream source is
\* set; the stream source is None when disable_stream is on and the entity's
\* channel has RTSP enabled, and the channel's rtsps_url otherwise.
C6_StreamSource ==
    /\ entity._attr_supported_features \in {0, SUPPORT_STREAM}
    /\ (entity._attr_supported_features = SUPPORT_STREAM) = (entity._stream_source # None)
    /\ IF disable_stream /\ entity.channel.is_rtsp_enabled
       THEN entity._stream_source = None
       ELSE entity._stream_source = entity.channel.rtsps_url

\* A callback gave the entity a channel with RTSP on and a URL while
\* disable_stream is on: the entity has no stream source and no stream feature.
C6_Witness ==
    /\ pc = "updated_event"
    /\ disable_stream
    /\ entity.channel.is_rtsp_enabled
    /\ entity.channel.rtsps_url # None
    /\ Len(CurrentCamera.channels) = 2
    /\ entity.channel = CurrentCamera.channels[2]
    /\ entity._stream_source = None
    /\ entity._attr_supported_features = 0

-----------------------------------------------------------------------------
(* sensor.py *)

\* An SDK object with the attributes attrs.
Object(attrs) == [type |-> "object", attrs |-> attrs]

\* A string is held as its pieces, each a "." or a run of other characters.
Join(pieces) ==
    LET RECURSIVE J(_)
        J(k) == IF k = 0 THEN "" ELSE J(k - 1) \o pieces[k]
    IN J(Len(pieces))

\* ufp_value.split("."): the substrings between the dots, in order.
RECURSIVE split(_)
split(s) ==
    LET dots == {i \in 1..Len(s) : s[i] = "."}
    IN IF dots = {} THEN <<Join(s)>>
       ELSE <<Join(SubSeq(s, 1, Min(dots) - 1))>>
                \o split(SubSeq(s, Min(dots) + 1, Len(s)))

\* The (description, ufp_device_types, ufp_value) of SENSOR_TYPES, in order.
SENSOR_TYPES ==
    <<[key |-> "motion_recording", name |-> "Motion Recording",
       ufp_device_types |-> {"camera"},
       ufp_value |-> <<"recording_settings", ".", "mode">>],
      [key |-> "light_turn_on", name |-> "Light Turn On",
       ufp_device_types |-> {"light"},
       ufp_value |-> <<"light_mode_settings", ".", "mode">>],
      [key |-> "battery_level", name |-> "Battery Level",
       ufp_device_types |-> {"sensor"},
       ufp_value |-> <<"battery_status">>],
      [key |-> "light_level", name |-> "Light Level",
       ufp_device_types |-> {"sensor"},
       ufp_value |-> <<"stats", ".", "light", ".", "value">>],
      [key |-> "humidity_level", name |-> "Humidity Level",
       ufp_device_types |-> {"sensor"},
       ufp_value |-> <<"stats", ".", "humidity", ".", "value">>],
      [key |-> "temperature_level", name |-> "Temperature",
       ufp_device_types |-> {"sensor"},
       ufp_value |-> <<"stats", ".", "temperature", ".", "value">>],
      [key |-> "ble_signal", name |-> "Bluetooth Signal Strength",
       ufp_device_types |-> {"sensor"},
       ufp_value |-> <<"bluetooth_connection_state", ".", "signal_strength">>]>>

\* The attributes sensor.py reads off the SDK's devices, by model type.
DeviceAttrs(model) ==
    CASE model = "camera" ->
            {[recording_settings |-> Object([mode |-> EnumMember("RecordingMode", m)])] :
                m \in RecordingModeValues}
      [] model = "light" ->
            {[light_mode_settings |-> Object([mode |-> EnumMember("LightModeType", m)])] :
                m \in {"motion", "always"}}
      [] model = "sensor" ->
            {[battery_status |-> b,
              stats |-> Object([light |-> Object([value |-> v]),
                                humidity |-> Object([value |-> v]),
                                temperature |-> Object([value |-> v])]),
              bluetooth_connection_state |-> Object([signal_strength |-> PyInt(-60)])] :
                b \in {PyInt(80), Object([percentage |-> PyInt(80)])},
                v \in {PyInt(21), PyNone}}
      [] model = "viewer" -> {[liveview |-> PyNone]}

ModelTypes == {"camera", "light", "sensor", "viewer"}
MaxDevices == 2

\* The devices the bootstrap can hold at position k.
DevicesAt(k) ==
    UNION {{[type |-> "object", id |-> k, model |-> m, name |-> "Device", attrs |-> a] :
               a \in DeviceAttrs(m)} : m \in ModelTypes}

\* The lists of n devices the bootstrap can hold.
RECURSIVE DeviceLists(_)
DeviceLists(n) ==
    IF n = 0 THEN {<<>>}
    ELSE {Append(rest, d) : rest \in DeviceLists(n - 1), d \in DevicesAt(n)}

\* protect_data.get_by_types(device_types): the devices of those model types.
get_by_types(devs, device_types) ==
    LET OfTypes(device) == device.model \in device_types
    IN SelectSeq(devs, OfTypes)

\* UnifiProtectSensor.__init__
UnifiProtectSensor(device, description) ==
    [device |-> device,
     entity_description |-> description,
     _attr_name |-> description.name \o " " \o device.name]

\* SensorsFrom with every device taken for every description.
RECURSIVE SensorsFromAllDevices(_, _)
SensorsFromAllDevices(descriptions, devs) ==
    IF descriptions = <<>> THEN <<>>
    ELSE [i \in 1..Len(devs) |-> UnifiProtectSensor(devs[i], Head(descriptions))]
             \o SensorsFromAllDevices(Tail(descriptions), devs)

\* The sensors list async_setup_entry builds: the descriptions in order, for
\* each the devices get_by_types yields, in order.
RECURSIVE SensorsFrom(_, _)
SensorsFrom(descriptions, devs) ==
    IF descriptions = <<>> THEN <<>>
    ELSE LET description == Head(descriptions)
             mine == get_by_types(devs, description.ufp_device_types)
         IN [i \in 1..Len(mine) |-> UnifiProtectSensor(mine[i], description)]
                \o SensorsFrom(Tail(descriptions), devs)

\* getattr down the attrs from value; AttributeError when one is missing.
RECURSIVE GetAttrs(_, _)
GetAttrs(value, attrs) ==
    IF attrs = <<>> THEN [value |-> value, raised |-> None]
    ELSE IF value.type = "object" /\ Head(attrs) \in DOMAIN value.attrs
         THEN GetAttrs(value.attrs[Head(attrs)], Tail(attrs))
         ELSE [value |-> PyNone, raised |-> "AttributeError"]

\* native_value without lines 154-155 (an enum member is returned as it is).
NativeValueKeepEnum(self) ==
    LET found == GetAttrs(self.device, split(self.entity_description.ufp_value))
    IN [self |-> self, value |-> found.value, raised |-> found.raised]

\* The native_value property: the value returned (or the failure raised) and
\* the entity as the read leaves it.
native_value(self) ==
    LET found == GetAttrs(self.device, split(self.entity_description.ufp_value))
        value == IF found.raised = None /\ found.value.type = "enum"
                 THEN PyStr(found.value.value)
                 ELSE found.value
    IN [self |-> self, value |-> value, raised |-> found.raised]

InitSensor ==
    /\ devices \in UNION {DeviceLists(n) : n \in 0..MaxDevices}
    /\ cameras = <<>>
    /\ last_update_success = TRUE
    /\ disable_stream = FALSE
    /\ entity = None
    /\ ha_state = None
    /\ pc = "loaded"
    /\ added = <<>>
    /\ registered = {}
    /\ sdk_calls = <<>>
    /\ last = None
    /\ now = 0
    /\ reading = None

SensorSetupEntry ==
    /\ pc = "loaded"
    /\ added' = Append(added, SensorsFrom(SENSOR_TYPES, devices))
    /\ pc' = "setup"
    /\ UNCHANGED <<cameras, last_update_success, disable_stream, entity, ha_state,
                   registered, sdk_calls, last, now, devices, reading>>

\* The host reads the state of one of the sensors added.
ReadNativeValue ==
    /\ pc \in {"setup", "read"}
    /\ \E i \in 1..Len(added[1]) :
          LET result == native_value(added[1][i])
          IN /\ reading' = [sensor |-> i, value |-> result.value,
                            raised |-> result.raised]
             /\ added' = [added EXCEPT ![1][i] = result.self]
    /\ pc' = "read"
    /\ UNCHANGED <<cameras, last_update_success, disable_stream, entity, ha_state,
                   registered, sdk_calls, last, now, devices>>

NextSensor == SensorSetupEntry \/ ReadNativeValue

SpecSensor == InitSensor /\ [][NextSensor]_vars

-----------------------------------------------------------------------------
(* Properties of the sensor platform. *)

\* The value at the end of each description's path, the enum's value for a mode.
ValueAtPath(sensor) ==
    LET key == sensor.entity_description.key
        attrs == sensor.device.attrs
    IN CASE key = "motion_recording" -> PyStr(attrs.recording_settings.attrs.mode.value)
         [] key = "light_turn_on" -> PyStr(attrs.light_mode_settings.attrs.mode.value)
         [] key = "battery_level" -> attrs.battery_status
         [] key = "light_level" -> attrs.stats.attrs.light.attrs.value
         [] key = "humidity_level" -> attrs.stats.attrs.humidity.attrs.value
         [] key = "temperature_level" -> attrs.stats.attrs.temperature.attrs.value
         [] key = "ble_signal" -> attrs.bluetooth_connection_state.attrs.signal_strength

\* C7: a read of native_value returns the value at the end of the
\* description's dotted path from the entity's device, an enum member as its
\* value and anything else as it is, and changes no entity and no device.
C7_NativeValue ==
    [][pc' = "read" =>
          /\ reading'.raised = None
          /\ reading'.value = ValueAtPath(added[1][reading'.sensor])
          /\ added' = added
          /\ devices' = devices]_vars

\* A read of a camera's motion-recording sensor returned the mode's value.
C7_Witness ==
    /\ pc = "read"
    /\ reading.sensor = 1
    /\ added[1][1].entity_description.key = "motion_recording"
    /\ added[1][1].device.attrs.recording_settings.attrs.mode
           = EnumMember("RecordingMode", "detections")
    /\ reading.value = PyStr("detections")

\* The description keys of the sensors a device of a model type gets.
KeysOf(model) ==
    CASE model = "camera" -> {"motion_recording"}
      [] model = "light" -> {"light_turn_on"}
      [] model = "sensor" -> {"battery_level", "light_level", "humidity_level",
                              "temperature_level", "ble_signal"}
      [] OTHER -> {}

\* C8: setup hands the host one list, in one call, that holds one entity for
\* each description of SENSOR_TYPES and device of that description's types and
\* nothing else: a camera has the motion-recording sensor alone, a light the
\* light-turn-on sensor alone, a sensor device its five.
C8_SensorEntities ==
    pc = "setup" =>
        /\ Len(added) = 1
        /\ \A e \in 1..Len(added[1]) :
              /\ \E k \in 1..Len(devices) : added[1][e].device = devices[k]
              /\ \E t \in 1..Len(SENSOR_TYPES) :
                    added[1][e].entity_description = SENSOR_TYPES[t]
        /\ \A k \in 1..Len(devices) :
              LET mine == {e \in 1..Len(added[1]) : added[1][e].device = devices[k]}
              IN /\ {added[1][e].entity_description.key : e \in mine}
                        = KeysOf(devices[k].model)
                 /\ Cardinality(mine) = Cardinality(KeysOf(devices[k].model))

\* Setup ran on a bootstrap with a sensor device and a camera.
C8_Witness ==
    /\ pc = "setup"
    /\ Len(devices) = 2
    /\ devices[1].model = "sensor"
    /\ devices[2].model = "camera"
    /\ Len(added[1]) = 6
    /\ added[1][1].entity_description.key = "motion_recording"

====
